---- MODULE Spec2Model ----
(***************************************************************************)
(* Doc_Collab: the document store (documents, document_versions,           *)
(* document_collaborators), the HTTP document routes and the socket        *)
(* server's debounced auto-save.                                           *)
(*                                                                         *)
(* Spec      the store under the HTTP routes and saveDocumentToDB          *)
(* SchedSpec the socket server's document-change handler and its auto-save *)
(*           timers over an existing document                              *)
(* SaveSpec  document-change, the timers and save-document of one user     *)
(* DisconnectSpec  document-change, the timers and disconnect              *)
(* RoomSpec  the socket server's rooms: join-document, leave-document,     *)
(*           document-change and disconnect, and the events they emit      *)
(* RelaySpec document-change, its broadcast to the room and the timers     *)
(* ErrorSpec join-document and save-document on documents that are         *)
(*           missing or refused                                            *)
(* SessionSpec  save-document of one user, the auto-saves of another and   *)
(*           the document-saved events                                     *)
(* LiveSpec  document-change and the timers under fairness, with a store   *)
(*           that answers                                                  *)
(*                                                                         *)
(* Atomicity.  Every Sequelize instance of the repository is built with    *)
(* pool.max = 1 (config.js:23-28, 68-73, 110-115): a managed transaction   *)
(* holds the only connection from sequelize.transaction() to commit or     *)
(* rollback, so no other statement of the process reaches the database in  *)
(* between.  A transactional handler is therefore one step of the store;   *)
(* what it wrote before a failure is rolled back and never visible.        *)
(* Rows of document_versions are ordered by createdAt; two rows of one     *)
(* document are never written in the same millisecond (each is a separate  *)
(* round trip on the single connection), so creation order is total and a  *)
(* ledger is a sequence.                                                   *)
(***************************************************************************)
EXTENDS Integers, Sequences, FiniteSets, TLC

\* ---------------------------------------------------------------- bounds
MaxVersions == 3         \* rows of document_versions kept per document
MaxTimers == 2           \* timer handles alive at once
MaxSaves == 1            \* save-document handlers in flight at once
MaxId == 21              \* ids whose key texts are compared

Docs == {1}              \* ids of the documents created
DocIds == Docs \cup {2}  \* ids a request may name; 2 is never created
Sockets == {1, 2, 3}     \* connections; 1 and 2 are two tabs of user 1
SaveSockets == {3}       \* the connections that edit and save in SaveSpec
Users == {1, 2}
Contents == {"v0", "v1", "v2"}
EditContents == {"v1", "v2"}   \* contents sent over a socket
RouteSets == {"guarded", "open"}

NoUser == 0              \* the value of an absent ownerId

\* sequelize.define('Document', {id, title, content, currentVersion}) and the
\* associations of the model (versions, collaborators): no attribute ownerId
\* and no association that would add one.  Sequelize drops a value given under
\* a key that is no attribute, and an instance read from the table has the
\* attributes only.
DocumentAttributes == {"id", "title", "content", "currentVersion"}

\* what document.ownerId of a stored row reads after a create with ownerId: u
StoredOwnerId(u) == IF "ownerId" \in DocumentAttributes THEN u ELSE NoUser

NoDoc == [exists |-> FALSE, content |-> "", currentVersion |-> 0, ownerId |-> NoUser]

VARIABLES
  routeSet,        \* which routes/documents.js is mounted
  documents,       \* table documents: id -> row
  versions,        \* table document_versions, per document, by createdAt ASC
  collaborators,   \* table document_collaborators: id -> set of user ids
  autoSaveTimers,  \* Map timerKey -> timer handle
  timers,          \* the timers set and not yet finished, oldest first
  connected,       \* the sockets connected
  joined,          \* socket.io rooms: <<socket, documentId>> after socket.join
  documentRooms,   \* Map documentId -> Set of user ids
  joining,         \* join-document handlers awaiting the document lookup
  disconnecting,   \* disconnect handlers awaiting a lookup in the timer loop
  saves,           \* save-document handlers awaiting the store
  emitted,         \* the events the last step delivered
  lastOp           \* the request handled by the last step and its outcome

storeVars == <<documents, versions, collaborators>>
schedVars == <<autoSaveTimers, timers>>
roomVars == <<connected, joined, documentRooms, joining, disconnecting>>
vars == <<routeSet, documents, versions, collaborators, autoSaveTimers, timers,
          connected, joined, documentRooms, joining, disconnecting, saves,
          emitted, lastOp>>

\* ------------------------------------------------------- request inputs
\* req.params.versionIndex is a string: digits with an optional sign, or not
\* a number at all.
IndexTokens ==
  {[numeric |-> TRUE, val |-> n] : n \in -1..MaxVersions}
    \cup {[numeric |-> FALSE, val |-> 0]}

NoIndex == [numeric |-> FALSE, val |-> 0]

\* parseInt(versionIndex): the integer, or NaN.
ParseInt(tok) ==
  IF tok.numeric THEN [nan |-> FALSE, val |-> tok.val]
  ELSE [nan |-> TRUE, val |-> 0]

\* The request a step handled: what was asked, how it ended, the live content
\* it found and how many ledger rows it added.  back: the step is a committed
\* revert that directly follows a committed revert of the same document and
\* goes to a row holding the content that was live before that one (which
\* appended firstAppended rows).
Op(op, d, u, c, tok, outcome, before, appended, back, firstAppended) ==
  [op |-> op, doc |-> d, user |-> u, content |-> c, index |-> tok,
   outcome |-> outcome, before |-> before, appended |-> appended,
   back |-> back, firstAppended |-> firstAppended]

NoOp == Op("none", 0, 0, "", NoIndex, "none", "", 0, FALSE, 0)

\* ------------------------------------------------------------ the store
Version(c, u) == [content |-> c, updatedById |-> u]

\* DocumentVersion.findOne({order: [['createdAt', 'DESC']]}) found a row
HasLastVersion(vs) == vs # <<>>

LastVersion(vs) == vs[Len(vs)]

\* document.ownerId === parseInt(userId) || collaboratorIds.includes(...)
HasAccess(doc, collabs, u) == doc.ownerId = u \/ u \in collabs

\* the check for unchanged content left out
ContentUnchanged_Never(doc, content) == FALSE

\* if (document.content === content): nothing to write
ContentUnchanged(doc, content) == doc.content = content

\* a snapshot on every write, whatever the newest row holds
SnapshotNeeded_Always(vs, doc) == TRUE

\* no snapshot at all
SnapshotNeeded_Never(vs, doc) == FALSE

\* if (!lastVersion || lastVersion.content !== document.content)
SnapshotNeeded(vs, doc) ==
  ~HasLastVersion(vs) \/ LastVersion(vs).content # doc.content

\* the snapshot created without a look at the newest row
SnapshotOldContent_NoDedup(vs, doc, u) == Append(vs, Version(doc.content, u))

\* DocumentVersion.create({content: document.content, updatedById: userId})
SnapshotOldContent(vs, doc, u) ==
  IF SnapshotNeeded(vs, doc) THEN Append(vs, Version(doc.content, u)) ELSE vs

\* the stored counter incremented instead of a recount
CountVersions_Increment(doc, vsBefore, vsAfter) ==
  doc.currentVersion + (Len(vsAfter) - Len(vsBefore))

\* the count taken before the snapshot is inserted
CountVersions_BeforeInsert(doc, vsBefore, vsAfter) == Len(vsBefore)

\* DocumentVersion.count({where: {documentId}}) inside the transaction
CountVersions(doc, vsBefore, vsAfter) == Len(vsAfter)

\* The body of the write transaction shared by saveDocumentToDB and PUT /:id
\* once the document is found and access is granted.
ApplyContentChange(doc, vs, content, u) ==
  IF ContentUnchanged(doc, content)
  THEN [doc |-> doc, versions |-> vs, outcome |-> "unchanged"]
  ELSE LET vs2 == SnapshotOldContent(vs, doc, u) IN
       [doc |-> [doc EXCEPT !.content = content,
                            !.currentVersion = CountVersions(doc, vs, vs2)],
        versions |-> vs2,
        outcome |-> "committed"]

Result(doc, vs, outcome) == [doc |-> doc, versions |-> vs, outcome |-> outcome]

\* saveDocumentToDB(documentId, content, userId): the transaction's result on
\* the document row and its ledger.  Every outcome but "committed" ends in
\* transaction.rollback().
SaveDocumentTxn(d, content, u) ==
  LET doc == documents[d]  vs == versions[d] IN
  IF ~doc.exists THEN Result(doc, vs, "not_found")
  ELSE IF ~HasAccess(doc, collaborators[d], u) THEN Result(doc, vs, "access_denied")
  ELSE ApplyContentChange(doc, vs, content, u)

\* router.put('/:id'): the guarded route set checks access, the open one
\* lets every authenticated user write.
PutTxn(d, content, u) ==
  LET doc == documents[d]  vs == versions[d] IN
  IF ~doc.exists THEN Result(doc, vs, "not_found")
  ELSE IF routeSet = "guarded" /\ ~HasAccess(doc, collaborators[d], u)
       THEN Result(doc, vs, "access_denied")
  ELSE ApplyContentChange(doc, vs, content, u)

\* index > versions.length: the bound off by one
IndexOutOfRange_OffByOne(index, n) ==
  ~index.nan /\ (index.val < 0 \/ index.val > n)

\* if (index < 0 || index >= versions.length): every comparison with NaN is
\* false.
IndexOutOfRange(index, n) ==
  ~index.nan /\ (index.val < 0 \/ index.val >= n)

\* versions[index] is an element of the array (otherwise undefined, and
\* reading .content of it throws)
HasVersionAt(vs, index) == ~index.nan /\ index.val \in 0..(Len(vs) - 1)

\* the list read newest first (order DESC instead of ASC)
RevertTarget_FromNewest(vs, index) == vs[Len(vs) - index.val].content

\* versions[index].content, of the list fetched before the snapshot
RevertTarget(vs, index) == vs[index.val + 1].content

\* the live content overwritten before it is snapshotted
ApplyRevert_SnapshotAfter(doc, vs, index, u) ==
  IF IndexOutOfRange(index, Len(vs)) THEN Result(doc, vs, "invalid_index")
  ELSE IF ~HasVersionAt(vs, index) THEN Result(doc, vs, "type_error")
  ELSE LET doc2 == [doc EXCEPT !.content = RevertTarget(vs, index)]
           vs2 == SnapshotOldContent(vs, doc2, u) IN
       Result([doc2 EXCEPT !.currentVersion = CountVersions(doc, vs, vs2)],
              vs2, "committed")

\* the rows after the target deleted, as a reset to the target would
ApplyRevert_Truncate(doc, vs, index, u) ==
  IF IndexOutOfRange(index, Len(vs)) THEN Result(doc, vs, "invalid_index")
  ELSE IF ~HasVersionAt(vs, index) THEN Result(doc, vs, "type_error")
  ELSE LET vs2 == SubSeq(vs, 1, index.val + 1) IN
       Result([doc EXCEPT !.content = RevertTarget(vs, index),
                          !.currentVersion = CountVersions(doc, vs, vs2)],
              vs2, "committed")

\* The body of router.post('/:id/revert/:versionIndex') once the document is
\* found and access is granted.
ApplyRevert(doc, vs, index, u) ==
  IF IndexOutOfRange(index, Len(vs)) THEN Result(doc, vs, "invalid_index")
  ELSE IF ~HasVersionAt(vs, index) THEN Result(doc, vs, "type_error")
  ELSE LET vs2 == SnapshotOldContent(vs, doc, u) IN
       Result([doc EXCEPT !.content = RevertTarget(vs, index),
                          !.currentVersion = CountVersions(doc, vs, vs2)],
              vs2, "committed")

RevertTxn(d, tok, u) ==
  LET doc == documents[d]  vs == versions[d] IN
  IF ~doc.exists THEN Result(doc, vs, "not_found")
  ELSE IF routeSet = "guarded" /\ ~HasAccess(doc, collaborators[d], u)
       THEN Result(doc, vs, "access_denied")
  ELSE ApplyRevert(doc, vs, ParseInt(tok), u)

\* What a finished transaction leaves in the store: its writes if it
\* committed, nothing if it rolled back.
Commit(d, r) ==
  /\ Len(r.versions) <= MaxVersions
  /\ documents' = [documents EXCEPT ![d] = r.doc]
  /\ versions' = [versions EXCEPT ![d] = r.versions]
  /\ UNCHANGED collaborators

\* the snapshot written outside the transaction: it outlives the rollback
Rollback_KeepsSnapshot ==
  /\ \E d \in Docs :
       /\ documents[d].exists
       /\ Len(versions[d]) < MaxVersions
       /\ versions' = [versions EXCEPT
                         ![d] = Append(@, Version(documents[d].content, NoUser))]
  /\ UNCHANGED <<documents, collaborators>>

\* A statement of the transaction fails (connection lost, timeout): the
\* catch block rolls back and the handler reports the error.
Rollback == UNCHANGED storeVars

\* ----------------------------------------------------------- HTTP routes
\* router.post('/'): the document row with currentVersion 0, then its initial
\* version.  The id is first told to a client in the response, after both
\* rows exist.  The guarded route set passes ownerId: req.userId.
NewDocument(c, u) ==
  [exists |-> TRUE, content |-> c, currentVersion |-> 0,
   ownerId |-> IF routeSet = "guarded" THEN StoredOwnerId(u) ELSE NoUser]

\* a document created without its initial version
InitialVersions_None(c, u) == <<>>

InitialVersions(c, u) == <<Version(c, u)>>

CreateDocument(d, u, c) ==
  /\ ~documents[d].exists
  /\ documents' = [documents EXCEPT ![d] = NewDocument(c, u)]
  /\ versions' = [versions EXCEPT ![d] = InitialVersions(c, u)]
  /\ lastOp' = Op("create", d, u, c, NoIndex, "created", "", 1, FALSE, 0)
  /\ emitted' = {}
  /\ UNCHANGED <<routeSet, collaborators, schedVars, roomVars, saves>>

\* The committed revert r goes back to the content the previous step, a
\* committed revert of d too, had found live.
GoesBack(op, d, tok, r) ==
  /\ op = "revert" /\ r.outcome = "committed"
  /\ lastOp.op = "revert" /\ lastOp.doc = d /\ lastOp.outcome = "committed"
  /\ versions[d][tok.val + 1].content = lastOp.before

\* The store's part of a transactional handler: the transaction r either
\* runs to its end, or a statement of it fails and the catch block rolls back.
Transact(op, d, u, c, tok, r) ==
  \/ /\ Commit(d, r)
     /\ lastOp' = Op(op, d, u, c, tok, r.outcome, documents[d].content,
                     Len(r.versions) - Len(versions[d]),
                     GoesBack(op, d, tok, r),
                     IF GoesBack(op, d, tok, r) THEN lastOp.appended ELSE 0)
  \/ /\ Rollback
     /\ lastOp' = Op(op, d, u, c, tok, "store_error", documents[d].content,
                     0, FALSE, 0)

PutDocument(d, u, c) ==
  /\ Transact("put", d, u, c, NoIndex, PutTxn(d, c, u))
  /\ emitted' = {}
  /\ UNCHANGED <<routeSet, schedVars, roomVars, saves>>

RevertDocument(d, u, tok) ==
  /\ Transact("revert", d, u, "", tok, RevertTxn(d, tok, u))
  /\ emitted' = {}
  /\ UNCHANGED <<routeSet, schedVars, roomVars, saves>>

\* saveDocumentToDB as called by the auto-save timer and by save-document
SaveDocumentToDB(d, u, c) ==
  /\ Transact("save", d, u, c, NoIndex, SaveDocumentTxn(d, c, u))
  /\ emitted' = {}
  /\ UNCHANGED <<routeSet, schedVars, roomVars, saves>>

\* --------------------------------------------------------- socket server
\* socket.userId, set from the token when the connection is accepted
SocketUser(s) == IF s = 3 THEN 2 ELSE 1

\* An event delivered to connection `to`.
Event(name, to, u, d, c, us, v) ==
  [event |-> name, to |-> to, user |-> u, doc |-> d, content |-> c,
   users |-> us, version |-> v]

\* io.to(documentId) in place of socket.to(documentId): the sender included
OthersInRoom_WithSender(s, d) ==
  {t \in connected : <<t, d>> \in joined}

\* socket.to(documentId): the connected sockets in the socket.io room, the
\* sender excepted
OthersInRoom(s, d) ==
  {t \in connected : <<t, d>> \in joined /\ t # s}

\* io.to(documentId): the connected sockets in the socket.io room
AllInRoom(d) == {t \in connected : <<t, d>> \in joined}

\* the broadcast held back from a sender whose save would be refused
Broadcast_IfAuthorised(name, s, d, c) ==
  IF documents[d].exists
       /\ HasAccess(documents[d], collaborators[d], SocketUser(s))
  THEN {Event(name, t, SocketUser(s), d, c, {}, 0) : t \in OthersInRoom(s, d)}
  ELSE {}

\* socket.to(documentId).emit(name, {userId, documentId})
Broadcast(name, s, d, c) ==
  {Event(name, t, SocketUser(s), d, c, {}, 0) : t \in OthersInRoom(s, d)}

\* the error sent to a socket of the room in place of the socket of the request
ErrorEvent_ToRoom(s, d) ==
  Event("error", IF AllInRoom(d) = {} THEN s ELSE CHOOSE t \in AllInRoom(d) : TRUE,
        SocketUser(s), d, "", {}, 0)

\* socket.emit('error', {message})
ErrorEvent(s, d) == Event("error", s, SocketUser(s), d, "", {}, 0)

\* documentRooms: an entry of the Map, or none
NoRoom == [has |-> FALSE, users |-> {}]

Room(us) == [has |-> TRUE, users |-> us]

\* the key without the user id: one entry per document
TimerKey_PerDocument(d, u) == <<d, 1>>

\* `${documentId}_${socket.userId}`
TimerKey(d, u) == <<d, u>>

TimerKeys == DocIds \X Users

NoTimer == 0

\* A timer set by document-change.  st: "armed" (less than the delay has
\* passed), "due" (the delay has passed, the callback has not started) or
\* "running" (the callback awaits saveDocumentToDB).  superseded: while the
\* timer was armed, the same user sent another document-change with other
\* content for the same document.
Timer(id, d, u, c) ==
  [id |-> id, doc |-> d, user |-> u, content |-> c, st |-> "armed",
   superseded |-> FALSE]

TimerIds(ts) == {ts[i].id : i \in 1..Len(ts)}

NewTimerId(ts) == CHOOSE id \in 1..(Len(ts) + 1) : id \notin TimerIds(ts)

\* clearTimeout(handle): a timer whose callback has not started never runs;
\* on one whose callback has started it does nothing.
ClearTimeout(ts, id) ==
  LET Keep(t) == t.id # id \/ t.st = "running" IN SelectSeq(ts, Keep)

\* if (autoSaveTimers.has(timerKey)) clearTimeout(autoSaveTimers.get(timerKey))
ClearExisting(ts, key) ==
  IF autoSaveTimers[key] # NoTimer THEN ClearTimeout(ts, autoSaveTimers[key])
  ELSE ts

Supersede(ts, d, u, c) ==
  [i \in 1..Len(ts) |->
     IF ts[i].doc = d /\ ts[i].user = u /\ ts[i].st = "armed"
          /\ ts[i].content # c
     THEN [ts[i] EXCEPT !.superseded = TRUE] ELSE ts[i]]

\* socket.on('document-change'): broadcast document-update to the others in
\* the room, clear the timer recorded under the key, set a new one and record
\* it.
DocumentChange(s, d, c) ==
  LET u == SocketUser(s)
      key == TimerKey(d, u)
      left == ClearExisting(timers, key)
      id == NewTimerId(left)
  IN /\ s \in connected
     /\ Len(left) < MaxTimers
     /\ emitted' = Broadcast("document-update", s, d, c)
     /\ timers' = Append(Supersede(left, d, u, c), Timer(id, d, u, c))
     /\ autoSaveTimers' = [autoSaveTimers EXCEPT ![key] = id]
     /\ lastOp' = Op("document-change", d, u, c, NoIndex, "scheduled", "", 0,
                     FALSE, 0)
     /\ UNCHANGED <<routeSet, storeVars, roomVars, saves>>

\* socket.on('cursor-position'): cursor-update goes to the others in the
\* socket.io room named by the payload's documentId.
CursorPosition(s, d) ==
  /\ s \in connected
  /\ emitted' = Broadcast("cursor-update", s, d, "")
  /\ lastOp' = Op("cursor-position", d, SocketUser(s), "", NoIndex, "sent", "",
                  0, FALSE, 0)
  /\ UNCHANGED <<routeSet, storeVars, schedVars, roomVars, saves>>

\* The 2000 ms of a timer have passed.  All timers have the same delay, so
\* they run out in the order they were set.
TimerExpires(i) ==
  /\ timers[i].st = "armed"
  /\ \A j \in 1..(i - 1) : timers[j].st # "armed"
  /\ timers' = [timers EXCEPT ![i].st = "due"]
  /\ lastOp' = Op("timer", timers[i].doc, timers[i].user, timers[i].content,
                  NoIndex, "expired", "", 0, FALSE, 0)
  /\ emitted' = {}
  /\ UNCHANGED <<routeSet, storeVars, autoSaveTimers, roomVars, saves>>

\* The timer's callback starts and calls saveDocumentToDB.  Callbacks of
\* timers of one delay start in the order the timers were set.
TimerFires(i) ==
  /\ timers[i].st = "due"
  /\ \A j \in 1..(i - 1) : timers[j].st = "running"
  /\ timers' = [timers EXCEPT ![i].st = "running"]
  /\ lastOp' = Op("auto-save", timers[i].doc, timers[i].user,
                  timers[i].content, NoIndex, "started", "", 0, FALSE, 0)
  /\ emitted' = {}
  /\ UNCHANGED <<routeSet, storeVars, autoSaveTimers, roomVars, saves>>

\* The callback's saveDocumentToDB returns or throws; either way the callback
\* ends with autoSaveTimers.delete(timerKey) and emits nothing.
AutoSaveDone(i) ==
  LET t == timers[i]
      Keep(x) == x.id # t.id
  IN /\ t.st = "running"
     /\ Transact("save", t.doc, t.user, t.content, NoIndex,
                 SaveDocumentTxn(t.doc, t.content, t.user))
     /\ timers' = SelectSeq(timers, Keep)
     /\ autoSaveTimers' =
          [autoSaveTimers EXCEPT ![TimerKey(t.doc, t.user)] = NoTimer]
     /\ emitted' = {}
     /\ UNCHANGED <<routeSet, roomVars, saves>>

\* A save-document handler between its steps.  st: "saving" (it awaits
\* saveDocumentToDB) or "stored" (it awaits the lookup that follows).
\* version: the versionCount its saveDocumentToDB returned, 0 while it has
\* returned none (the handler does not keep the return value).
Save(s, d, c) ==
  [socket |-> s, doc |-> d, content |-> c, st |-> "saving", version |-> 0]

\* return { document, versionCount } of a committed saveDocumentToDB; the
\* unchanged case returns nothing
ReturnedVersion(outcome, doc) ==
  IF outcome = "committed" THEN doc.currentVersion ELSE 0

WithoutSave(i) == SubSeq(saves, 1, i - 1) \o SubSeq(saves, i + 1, Len(saves))

\* socket.on('save-document'), up to the call of saveDocumentToDB: clear the
\* timer recorded under the key and delete the key.
SaveDocument(s, d, c) ==
  LET u == SocketUser(s)
      key == TimerKey(d, u)
  IN /\ s \in connected
     /\ Len(saves) < MaxSaves
     /\ timers' = ClearExisting(timers, key)
     /\ autoSaveTimers' = [autoSaveTimers EXCEPT ![key] = NoTimer]
     /\ saves' = Append(saves, Save(s, d, c))
     /\ emitted' = {}
     /\ lastOp' = Op("save-document", d, u, c, NoIndex, "received", "", 0,
                     FALSE, 0)
     /\ UNCHANGED <<routeSet, storeVars, roomVars>>

\* a failure taken for a success
SaveSucceeded_Always(outcome) == TRUE

\* saveDocumentToDB returned (unchanged content included) or threw
SaveSucceeded(outcome) == outcome \in {"committed", "unchanged"}

\* saveDocumentToDB of a save-document returns or throws.  A throw ends in the
\* handler's catch block: socket.emit('error', ...).
SaveDocumentStored(i) ==
  LET sv == saves[i]
      u == SocketUser(sv.socket)
  IN /\ sv.st = "saving"
     /\ Transact("save-document", sv.doc, u, sv.content, NoIndex,
                 SaveDocumentTxn(sv.doc, sv.content, u))
     /\ IF SaveSucceeded(lastOp'.outcome)
        THEN /\ saves' = [saves EXCEPT
                          ![i].st = "stored",
                          ![i].version =
                            ReturnedVersion(lastOp'.outcome, documents'[sv.doc])]
             /\ emitted' = {}
        ELSE /\ saves' = WithoutSave(i)
             /\ emitted' = {ErrorEvent(sv.socket, sv.doc)}
     /\ UNCHANGED <<routeSet, schedVars, roomVars>>

\* socket.to(documentId) in place of io.to(documentId): the saver left out
DocumentSaved_ToOthers(s, d) ==
  {Event("document-saved", t, SocketUser(s), d, "", {},
         documents[d].currentVersion) : t \in OthersInRoom(s, d)}

\* io.to(documentId).emit('document-saved', {version: document.currentVersion})
DocumentSaved(s, d) ==
  {Event("document-saved", t, SocketUser(s), d, "", {},
         documents[d].currentVersion) : t \in AllInRoom(d)}

\* Document.findByPk after the save returns the row as it is by now, or
\* throws (catch block: error event).
SaveDocumentNotify(i) ==
  LET sv == saves[i]
      u == SocketUser(sv.socket)
  IN /\ sv.st = "stored"
     /\ saves' = WithoutSave(i)
     /\ \/ /\ emitted' = DocumentSaved(sv.socket, sv.doc)
           /\ lastOp' = Op("save-document", sv.doc, u, sv.content, NoIndex,
                           "notified", "", 0, FALSE, 0)
        \/ /\ emitted' = {ErrorEvent(sv.socket, sv.doc)}
           /\ lastOp' = Op("save-document", sv.doc, u, sv.content, NoIndex,
                           "lookup_error", "", 0, FALSE, 0)
     /\ UNCHANGED <<routeSet, storeVars, schedVars, roomVars>>

\* ---- disconnect
\* The text of a key.  String(n) of a positive integer: its decimal digits.
DigitChars == <<"0", "1", "2", "3", "4", "5", "6", "7", "8", "9">>

RECURSIVE Digits(_)
Digits(n) ==
  IF n < 10 THEN <<DigitChars[n + 1]>>
  ELSE Digits(n \div 10) \o <<DigitChars[(n % 10) + 1]>>

\* `${documentId}_${socket.userId}` as a sequence of characters
KeyText(d, u) == Digits(d) \o <<"_">> \o Digits(u)

\* String.prototype.endsWith
EndsWith(text, suffix) ==
  /\ Len(suffix) <= Len(text)
  /\ SubSeq(text, Len(text) - Len(suffix) + 1, Len(text)) = suffix

\* timerKey.includes(socket.userId) in place of the suffix test
KeyOfUser_Includes(text, u) ==
  \E i \in 1..(Len(text) - Len(Digits(u)) + 1) :
    SubSeq(text, i, i + Len(Digits(u)) - 1) = Digits(u)

\* timerKey.endsWith(`_${socket.userId}`)
KeyOfUser(text, u) == EndsWith(text, <<"_">> \o Digits(u))

\* the entries of autoSaveTimers whose key ends with `_${socket.userId}`
UserKeys(u) ==
  {k \in TimerKeys : /\ KeyOfUser(KeyText(k[1], k[2]), u)
                     /\ autoSaveTimers[k] # NoTimer}

\* the room deleted without a look at what is left in the Set
WithoutUser_DeleteRoom(room, u) == NoRoom

\* the Set kept in the Map when its last user is deleted
WithoutUser_KeepEmptySet(room, u) == Room(room.users \ {u})

\* users.delete(socket.userId); documentRooms.delete(documentId) when the set
\* is left empty
WithoutUser(room, u) ==
  IF room.users \ {u} = {} THEN NoRoom ELSE Room(room.users \ {u})

\* documentRooms.forEach: the user is removed from every room that has it and
\* user-left goes to the sockets of that room.
RemoveFromRooms(s) ==
  LET u == SocketUser(s)
      Has(d) == documentRooms[d].has /\ u \in documentRooms[d].users
  IN /\ documentRooms' =
          [d \in DocIds |-> IF Has(d) THEN WithoutUser(documentRooms[d], u)
                            ELSE documentRooms[d]]
     /\ emitted' = UNION {Broadcast("user-left", s, d, "") :
                            d \in {x \in DocIds : Has(x)}}

\* The loop over autoSaveTimers.entries() from where it stands: the next entry
\* of the user is cleared and deleted and the handler awaits a lookup; with no
\* entry left the loop ends and the rooms are updated.
DisconnectLoop(s) ==
  LET u == SocketUser(s) IN
  IF UserKeys(u) = {}
  THEN /\ RemoveFromRooms(s)
       /\ disconnecting' = disconnecting \ {s}
       /\ lastOp' = Op("disconnect", 0, u, "", NoIndex, "done",
                       IF s \in disconnecting THEN "resumed" ELSE "", 0,
                       FALSE, 0)
       /\ UNCHANGED schedVars
  ELSE /\ \E k \in UserKeys(u) :
            /\ timers' = ClearTimeout(timers, autoSaveTimers[k])
            /\ autoSaveTimers' = [autoSaveTimers EXCEPT ![k] = NoTimer]
       /\ disconnecting' = disconnecting \cup {s}
       /\ emitted' = {}
       /\ lastOp' = Op("disconnect", 0, u, "", NoIndex, "awaiting", "", 0,
                       FALSE, 0)
       /\ UNCHANGED documentRooms

\* socket.on('disconnect'): the socket has left its socket.io rooms.
Disconnect(s) ==
  /\ s \in connected
  /\ connected' = connected \ {s}
  /\ joined' = {p \in joined : p[1] # s}
  /\ DisconnectLoop(s)
  /\ UNCHANGED <<routeSet, storeVars, joining, saves>>

\* The lookup awaited inside the loop returns or throws (caught in the loop).
DisconnectResume(s) ==
  /\ s \in disconnecting
  /\ DisconnectLoop(s)
  /\ UNCHANGED <<routeSet, storeVars, connected, joined, joining, saves>>

\* ---- rooms
\* socket.on('join-document'), up to the lookup of the document
JoinDocument(s, d) ==
  /\ s \in connected
  /\ <<s, d>> \notin joining
  /\ joining' = joining \cup {<<s, d>>}
  /\ emitted' = {}
  /\ lastOp' = Op("join-document", d, SocketUser(s), "", NoIndex, "lookup", "",
                  0, FALSE, 0)
  /\ UNCHANGED <<routeSet, storeVars, schedVars, connected, joined,
                 documentRooms, disconnecting, saves>>

\* what the handler does with the document the lookup returned
JoinOutcome(d, u) ==
  IF ~documents[d].exists THEN "not_found"
  ELSE IF ~HasAccess(documents[d], collaborators[d], u) THEN "access_denied"
  ELSE "joined"

\* documentRooms.get(documentId).add(socket.userId), the Set created if absent
WithUser(room, u) == Room(room.users \cup {u})

\* socket.emit('active-users', Array.from(documentRooms.get(documentId)))
ActiveUsers(s, d, room) ==
  Event("active-users", s, SocketUser(s), d, "", room.users, 0)

\* The lookup of join-document returns or throws.  Not found, access denied
\* and a throw each end in an error event to the socket; otherwise the socket
\* joins the room, the user is recorded, the others are told and the socket
\* gets the list of users.
JoinLookupDone(s, d) ==
  LET u == SocketUser(s) IN
  /\ <<s, d>> \in joining
  /\ joining' = joining \ {<<s, d>>}
  /\ \/ /\ JoinOutcome(d, u) = "joined"
        /\ joined' = joined \cup {<<s, d>>}
        /\ documentRooms' =
             [documentRooms EXCEPT ![d] = WithUser(documentRooms[d], u)]
        /\ emitted' = Broadcast("user-joined", s, d, "")
                        \cup {ActiveUsers(s, d, WithUser(documentRooms[d], u))}
        /\ lastOp' = Op("join-document", d, u, "", NoIndex, "joined", "", 0,
                        FALSE, 0)
     \/ /\ JoinOutcome(d, u) # "joined"
        /\ emitted' = {ErrorEvent(s, d)}
        /\ lastOp' = Op("join-document", d, u, "", NoIndex, JoinOutcome(d, u),
                        "", 0, FALSE, 0)
        /\ UNCHANGED <<joined, documentRooms>>
     \/ /\ emitted' = {ErrorEvent(s, d)}
        /\ lastOp' = Op("join-document", d, u, "", NoIndex, "lookup_error",
                        "", 0, FALSE, 0)
        /\ UNCHANGED <<joined, documentRooms>>
  /\ UNCHANGED <<routeSet, storeVars, schedVars, connected, disconnecting,
                 saves>>

\* socket.on('leave-document'): the socket leaves the socket.io room, the user
\* is taken out of the room's Set, and user-left goes to the room.
LeaveDocument(s, d) ==
  LET u == SocketUser(s) IN
  /\ s \in connected
  /\ joined' = joined \ {<<s, d>>}
  /\ documentRooms' =
       [documentRooms EXCEPT ![d] = IF documentRooms[d].has
                                    THEN WithoutUser(documentRooms[d], u)
                                    ELSE documentRooms[d]]
  /\ emitted' = Broadcast("user-left", s, d, "")
  /\ lastOp' = Op("leave-document", d, u, "", NoIndex, "left",
                  IF u \in documentRooms[d].users THEN "member" ELSE "", 0,
                  FALSE, 0)
  /\ UNCHANGED <<routeSet, storeVars, schedVars, connected, joining,
                 disconnecting, saves>>

\* ------------------------------------------------------- specification
\* Rows of document_collaborators are written outside this code base; a row
\* refers to an existing document.
CollaboratorSets == {{}, {2}}

CollaboratorTables ==
  {t \in [DocIds -> CollaboratorSets] : \A d \in DocIds \ Docs : t[d] = {}}

Init ==
  /\ routeSet \in RouteSets
  /\ documents = [d \in DocIds |-> NoDoc]
  /\ versions = [d \in DocIds |-> <<>>]
  /\ collaborators \in CollaboratorTables
  /\ autoSaveTimers = [k \in TimerKeys |-> NoTimer]
  /\ timers = <<>>
  /\ connected = Sockets
  /\ joined = {}
  /\ documentRooms = [d \in DocIds |-> NoRoom]
  /\ joining = {}
  /\ disconnecting = {}
  /\ saves = <<>>
  /\ emitted = {}
  /\ lastOp = NoOp

Next ==
  \/ \E d \in Docs, u \in Users, c \in Contents : CreateDocument(d, u, c)
  \/ \E d \in Docs, u \in Users, c \in Contents : PutDocument(d, u, c)
  \/ \E d \in Docs, u \in Users, tok \in IndexTokens : RevertDocument(d, u, tok)
  \/ \E d \in Docs, u \in Users, c \in Contents : SaveDocumentToDB(d, u, c)

Spec == Init /\ [][Next]_vars

\* The collaborators of document 1 under the socket server: user 2, with or
\* without user 1.
SocketCollaboratorTables ==
  {t \in [DocIds -> SUBSET Users] :
     /\ t[1] \in {{2}, {1, 2}}
     /\ \A d \in DocIds \ Docs : t[d] = {}}

\* The socket server over document 1 as user 1 created it with content "v0"
\* through the guarded routes.  (No route is called from here on.)
SocketStoreInit(tables) ==
  /\ routeSet = "guarded"
  /\ documents = [d \in DocIds |->
                    IF d = 1
                    THEN [exists |-> TRUE, content |-> "v0",
                          currentVersion |-> 0,
                          ownerId |-> StoredOwnerId(1)]
                    ELSE NoDoc]
  /\ versions = [d \in DocIds |-> IF d = 1 THEN <<Version("v0", 1)>> ELSE <<>>]
  /\ collaborators \in tables
  /\ autoSaveTimers = [k \in TimerKeys |-> NoTimer]
  /\ timers = <<>>
  /\ connected = Sockets
  /\ joining = {}
  /\ disconnecting = {}
  /\ saves = <<>>
  /\ emitted = {}
  /\ lastOp = NoOp

\* ... with every socket connected and none in a room
SocketInit(tables) ==
  /\ SocketStoreInit(tables)
  /\ joined = {}
  /\ documentRooms = [d \in DocIds |-> NoRoom]

SchedInit == SocketInit(SocketCollaboratorTables)

SchedNext ==
  \/ \E s \in Sockets, d \in Docs, c \in EditContents : DocumentChange(s, d, c)
  \/ \E i \in 1..Len(timers) : TimerExpires(i)
  \/ \E i \in 1..Len(timers) : TimerFires(i)
  \/ \E i \in 1..Len(timers) : AutoSaveDone(i)

SchedSpec == SchedInit /\ [][SchedNext]_vars

\* The timers of a spec's sockets run out, fire and finish.
TimerSteps ==
  \/ \E i \in 1..Len(timers) : TimerExpires(i)
  \/ \E i \in 1..Len(timers) : TimerFires(i)
  \/ \E i \in 1..Len(timers) : AutoSaveDone(i)

\* Edits and explicit saves of user 2 over the same document, of which
\* either user 2 or user 1 is the collaborator.
SaveCollaboratorTables ==
  {t \in [DocIds -> SUBSET Users] :
     /\ t[1] \in {{1}, {2}}
     /\ \A d \in DocIds \ Docs : t[d] = {}}

SaveInit == SocketInit(SaveCollaboratorTables)

SaveNext ==
  \/ \E s \in SaveSockets : DocumentChange(s, 1, "v1")
  \/ \E s \in SaveSockets, c \in EditContents : SaveDocument(s, 1, c)
  \/ \E i \in 1..Len(saves) : SaveDocumentStored(i)
  \/ \E i \in 1..Len(saves) : SaveDocumentNotify(i)
  \/ TimerSteps

SaveSpec == SaveInit /\ [][SaveNext]_vars

\* Edits and disconnects.
DisconnectNext ==
  \/ \E s \in Sockets : DocumentChange(s, 1, "v1")
  \/ \E s \in Sockets : Disconnect(s)
  \/ \E s \in Sockets : DisconnectResume(s)
  \/ TimerSteps

DisconnectSpec == SchedInit /\ [][DisconnectNext]_vars

\* Joins, leaves, edits and disconnects over the rooms.
RoomNext ==
  \/ \E s \in Sockets, d \in Docs : JoinDocument(s, d)
  \/ \E s \in Sockets, d \in Docs : JoinLookupDone(s, d)
  \/ \E s \in Sockets, d \in Docs : LeaveDocument(s, d)
  \/ \E s \in Sockets : DocumentChange(s, 1, "v1")
  \/ \E s \in Sockets : Disconnect(s)
  \/ \E s \in Sockets : DisconnectResume(s)

RoomSpec == SchedInit /\ [][RoomNext]_vars

\* Edits and cursor moves of one socket of each user and the auto-saves the
\* edits schedule, with
\* user 1's other socket and user 2's socket joining the room.
RelaySenders == {1, 3}

RelayReceivers == {2, 3}

RelayNext ==
  \/ \E s \in RelayReceivers : JoinDocument(s, 1)
  \/ \E s \in RelayReceivers : JoinLookupDone(s, 1)
  \/ \E s \in RelaySenders : DocumentChange(s, 1, "v1")
  \/ \E s \in RelaySenders : CursorPosition(s, 1)
  \/ TimerSteps

RelaySpec == SchedInit /\ [][RelayNext]_vars

\* Joins and explicit saves of one socket of each user, over document 1 and
\* over a document id that has no row.
ErrorSockets == {1, 3}

ErrorNext ==
  \/ \E s \in ErrorSockets, d \in DocIds : JoinDocument(s, d)
  \/ \E s \in ErrorSockets, d \in DocIds : JoinLookupDone(s, d)
  \/ \E s \in ErrorSockets, d \in DocIds : SaveDocument(s, d, "v1")
  \/ \E i \in 1..Len(saves) : SaveDocumentStored(i)
  \/ \E i \in 1..Len(saves) : SaveDocumentNotify(i)

ErrorSpec == SchedInit /\ [][ErrorNext]_vars

\* Edits of user 2's socket and of one socket of user 1 (with one content)
\* while the store answers every statement:
\* a timer runs out 2000 ms after it was set (setTimeout), its callback then
\* starts, and the saveDocumentToDB of a started callback returns or throws.
\* A user's next edit brings other content than the user's newest timer holds,
\* and edits stop when the ledger bound could not take their snapshots.
\* the content of the newest timer of user u, "" if u has none
NewestContent(u) ==
  LET own == SelectSeq(timers, LAMBDA t : t.user = u) IN
  IF own = <<>> THEN "" ELSE own[Len(own)].content

LiveEdit(s, c) ==
  /\ c # NewestContent(SocketUser(s))
  /\ Len(versions[1]) + Len(ClearExisting(timers, TimerKey(1, SocketUser(s))))
       < MaxVersions
  /\ DocumentChange(s, 1, c)

AutoSaveReturns(id) ==
  \E i \in 1..Len(timers) :
    /\ timers[i].id = id
    /\ AutoSaveDone(i)
    /\ lastOp'.outcome # "store_error"

LiveNext ==
  \/ \E c \in EditContents : LiveEdit(3, c)
  \/ LiveEdit(1, "v1")
  \/ \E i \in 1..Len(timers) : TimerExpires(i)
  \/ \E i \in 1..Len(timers) : TimerFires(i)
  \/ \E id \in 1..MaxTimers : AutoSaveReturns(id)

LiveSpec ==
  /\ SchedInit
  /\ [][LiveNext]_vars
  /\ WF_vars(\E i \in 1..Len(timers) : TimerExpires(i))
  /\ WF_vars(\E i \in 1..Len(timers) : TimerFires(i))
  /\ \A id \in 1..MaxTimers : WF_vars(AutoSaveReturns(id))

\* Explicit saves and joins of user 2's socket and edits of user 1 with their
\* auto-saves, over document 1 with both users its collaborators and socket 1
\* of user 1 in its room.

SessionCollaboratorTables ==
  {t \in [DocIds -> SUBSET Users] :
     /\ t[1] = {1, 2}
     /\ \A d \in DocIds \ Docs : t[d] = {}}

SessionInit ==
  /\ SocketStoreInit(SessionCollaboratorTables)
  /\ joined = {<<1, 1>>}
  /\ documentRooms = [d \in DocIds |-> IF d = 1 THEN Room({1}) ELSE NoRoom]

SessionNext ==
  \/ \E s \in SaveSockets : JoinDocument(s, 1)
  \/ \E s \in SaveSockets : JoinLookupDone(s, 1)
  \/ DocumentChange(1, 1, "v2")
  \/ \E s \in SaveSockets : SaveDocument(s, 1, "v1")
  \/ \E i \in 1..Len(saves) : SaveDocumentStored(i)
  \/ \E i \in 1..Len(saves) : SaveDocumentNotify(i)
  \/ TimerSteps

SessionSpec == SessionInit /\ [][SessionNext]_vars

\* ======================================================= the properties
\* The step just taken handled request `op` on document d.
Handled(ops, d) == lastOp'.op \in ops /\ lastOp'.doc = d

Committed(ops, d) == Handled(ops, d) /\ lastOp'.outcome = "committed"

Contents_(vs) == [i \in 1..Len(vs) |-> vs[i].content]

\* C1: a save, auto-save or PUT whose content equals the live content the
\* transaction finds leaves the document row (content, currentVersion) and
\* its ledger exactly as they were, every time it is applied.
C1_UnchangedWriteIsNoOp ==
  [][\A d \in Docs :
       (/\ Handled({"save", "put"}, d)
        /\ documents[d].exists
        /\ lastOp'.content = documents[d].content)
       => /\ documents'[d] = documents[d]
          /\ versions'[d] = versions[d]
          /\ lastOp'.outcome \in {"unchanged", "access_denied", "store_error"}]_vars

\* a second unchanged write in a row, on a document with history
C1_Witness ==
  \E d \in Docs :
    /\ lastOp.op \in {"save", "put"} /\ lastOp.doc = d
    /\ lastOp.outcome = "unchanged"
    /\ lastOp.content = documents[d].content
    /\ Len(versions[d]) >= 2
    /\ documents[d].currentVersion = Len(versions[d])

\* C2: right after a committed save, PUT or revert, currentVersion is the
\* number of ledger rows of the document.
C2_RecountAfterCommit ==
  \A d \in Docs :
    (lastOp.op \in {"save", "put", "revert"} /\ lastOp.doc = d
       /\ lastOp.outcome = "committed")
    => documents[d].currentVersion = Len(versions[d])

C2_Witness ==
  \E d \in Docs :
    /\ lastOp.op = "revert" /\ lastOp.doc = d /\ lastOp.outcome = "committed"
    /\ lastOp.appended = 1
    /\ documents[d].currentVersion = 3

InRange(tok, vs) == tok.numeric /\ tok.val \in 0..(Len(vs) - 1)

\* C7: a revert with an index in [0, count) that is carried out appends the
\* live content as a row of the acting user, unless the newest row already
\* holds it, and then installs the content of the index-th row of the ledger
\* as it was before the revert.  (It is not carried out only when access is
\* denied or the store fails.)
C7_RevertSnapshotsThenInstalls ==
  [][\A d \in Docs :
       (/\ Handled({"revert"}, d)
        /\ documents[d].exists
        /\ InRange(lastOp'.index, versions[d]))
       => \/ /\ lastOp'.outcome = "committed"
             /\ versions'[d] =
                  (IF LastVersion(versions[d]).content = documents[d].content
                   THEN versions[d]
                   ELSE Append(versions[d],
                               Version(documents[d].content, lastOp'.user)))
             /\ documents'[d].content
                  = versions[d][lastOp'.index.val + 1].content
          \/ /\ lastOp'.outcome \in {"access_denied", "store_error"}
             /\ versions'[d] = versions[d]
             /\ documents'[d] = documents[d]]_vars

\* a collaborator reverts to the second row; the abandoned content is kept
\* under the collaborator's id
C7_Witness ==
  \E d \in Docs :
    /\ lastOp.op = "revert" /\ lastOp.doc = d /\ lastOp.outcome = "committed"
    /\ lastOp.index = [numeric |-> TRUE, val |-> 1]
    /\ lastOp.appended = 1
    /\ Len(versions[d]) = 3
    /\ LastVersion(versions[d]) = Version(lastOp.before, lastOp.user)
    /\ lastOp.user # versions[d][1].updatedById
    /\ documents[d].content = versions[d][2].content
    /\ documents[d].content # versions[d][1].content

\* C8: a revert whose index is negative or at least the number of ledger rows
\* is refused as an invalid index (unless access is denied or the store fails
\* first) and leaves the document row and the ledger as they were.
C8_OutOfRangeRevertRefused ==
  [][\A d \in Docs :
       (/\ Handled({"revert"}, d)
        /\ documents[d].exists
        /\ lastOp'.index.numeric
        /\ (lastOp'.index.val < 0 \/ lastOp'.index.val >= Len(versions[d])))
       => /\ lastOp'.outcome \in {"invalid_index", "access_denied", "store_error"}
          /\ (lastOp'.outcome = "access_denied"
                => ~HasAccess(documents[d], collaborators[d], lastOp'.user))
          /\ versions'[d] = versions[d]
          /\ documents'[d] = documents[d]]_vars

\* index == versions.length, on a document whose live content is not in the
\* newest row
C8_Witness ==
  \E d \in Docs :
    /\ lastOp.op = "revert" /\ lastOp.doc = d
    /\ lastOp.outcome = "invalid_index"
    /\ lastOp.index = [numeric |-> TRUE, val |-> Len(versions[d])]
    /\ Len(versions[d]) = 2
    /\ LastVersion(versions[d]).content # documents[d].content

\* Two committed reverts of d in a row, the second one to a row holding the
\* content that was live before the first.
RevertedBack(d) ==
  /\ lastOp.op = "revert" /\ lastOp.doc = d /\ lastOp.outcome = "committed"
  /\ Committed({"revert"}, d)
  /\ InRange(lastOp'.index, versions[d])
  /\ versions[d][lastOp'.index.val + 1].content = lastOp.before

\* C9 as stated: the round trip restores the live content and the two
\* reverts append two rows together.
C9_RoundTripAppendsTwo ==
  [][\A d \in Docs :
       RevertedBack(d)
       => /\ documents'[d].content = lastOp.before
          /\ lastOp.appended + (Len(versions'[d]) - Len(versions[d])) = 2]_vars

\* C9 amended: the round trip restores the live content.  The first revert
\* appends a row unless the newest row already held the live content, the
\* second unless the content of version i equals the original live content;
\* so the two append two rows exactly when neither exception applies, and
\* fewer otherwise.
C9_RoundTripRestores ==
  [][\A d \in Docs :
       RevertedBack(d)
       => /\ documents'[d].content = lastOp.before
          /\ LastVersion(versions[d]).content = lastOp.before
          /\ Len(versions'[d]) - Len(versions[d])
               = (IF documents[d].content # lastOp.before THEN 1 ELSE 0)
          /\ lastOp.appended \in {0, 1}]_vars

\* a round trip that did append two rows
C9_Witness ==
  \E d \in Docs :
    /\ lastOp.op = "revert" /\ lastOp.doc = d /\ lastOp.outcome = "committed"
    /\ lastOp.back
    /\ lastOp.firstAppended = 1 /\ lastOp.appended = 1
    /\ documents[d].content = versions[d][lastOp.index.val + 1].content
    /\ documents[d].content # lastOp.before
    /\ Len(versions[d]) = 3

Pending(t) == t.st \in {"armed", "due"}

SamePair(t, x) == t.doc = x.doc /\ t.user = x.user

\* C11: at no time are two auto-save timers of one (documentId, userId) pair
\* scheduled and not yet fired, a document-change that arrives while an
\* earlier auto-save of the pair is in its store transaction included.
C11_OneArmedTimerPerPair ==
  \A i, j \in 1..Len(timers) :
    (i # j /\ SamePair(timers[i], timers[j]))
      => ~(Pending(timers[i]) /\ Pending(timers[j]))

\* C12: when the callback of a timer starts, no document-change of the same
\* user for the same document that came after the one that set it has brought
\* other content: what it writes is the content of the pair's latest edit.
C12_FiresWithLatestContent ==
  [][\A i \in 1..Len(timers) :
       (/\ timers[i].st = "due"
        /\ Len(timers') = Len(timers)
        /\ timers'[i].st = "running")
       => \A j \in (i + 1)..Len(timers) :
            SamePair(timers[i], timers[j])
              => timers[j].content = timers[i].content]_vars

\* C13: once save-document of a (documentId, userId) pair has cleared the
\* pair's timer and called saveDocumentToDB, no timer that an earlier
\* document-change of the pair set is still scheduled.
C13_SaveLeavesNoTimer ==
  (lastOp.op = "save-document" /\ lastOp.outcome = "received")
    => \A i \in 1..Len(timers) :
         (timers[i].doc = lastOp.doc /\ timers[i].user = lastOp.user)
           => ~Pending(timers[i])

\* C14: when the disconnect handler of a connection has run to its end, no
\* auto-save timer of the connection's user is scheduled any more, for any
\* document.
C14_DisconnectCancelsAll ==
  (lastOp.op = "disconnect" /\ lastOp.outcome = "done")
    => \A i \in 1..Len(timers) :
         timers[i].user = lastOp.user => ~Pending(timers[i])

\* timers' is timers without its running timer of the given pair that ended
EndedOneOf(d, u) ==
  \E i \in 1..Len(timers) :
    /\ timers[i].st = "running" /\ timers[i].doc = d /\ timers[i].user = u
    /\ timers' = SubSeq(timers, 1, i - 1) \o SubSeq(timers, i + 1, Len(timers))

\* C15: an auto-save that fails (document not found, access denied, store
\* error) leaves no entry under its key in autoSaveTimers, sets no timer in
\* place of the one that ended and emits no event.  A save-document whose
\* saveDocumentToDB fails emits one event, an error to the socket that sent
\* it, and the handler ends there: no document-saved follows.
C15_FailedSaves ==
  [][/\ (lastOp'.op = "save" /\ ~SaveSucceeded(lastOp'.outcome))
        => /\ autoSaveTimers'[TimerKey(lastOp'.doc, lastOp'.user)] = NoTimer
           /\ EndedOneOf(lastOp'.doc, lastOp'.user)
           /\ emitted' = {}
     /\ (/\ lastOp'.op = "save-document"
         /\ lastOp'.outcome \in {"not_found", "access_denied", "store_error"})
        => \E i \in 1..Len(saves) :
             /\ saves[i].st = "saving"
             /\ saves[i].doc = lastOp'.doc
             /\ saves[i].content = lastOp'.content
             /\ SocketUser(saves[i].socket) = lastOp'.user
             /\ emitted' = {ErrorEvent(saves[i].socket, saves[i].doc)}
             /\ saves' = WithoutSave(i)]_vars

\* a save-document that failed in the store while an edit of the same user
\* waits in a timer
C15_Witness ==
  /\ lastOp.op = "save-document" /\ lastOp.outcome = "store_error"
  /\ emitted = {ErrorEvent(3, 1)}
  /\ saves = <<>>
  /\ \E i \in 1..Len(timers) : timers[i].user = 2 /\ Pending(timers[i])

\* The user who created document d: the author of its initial version.
Creator(d) == versions[d][1].updatedById

\* C16 on the store: a write (saveDocumentToDB, PUT, revert) by a user who
\* neither created the document nor is among its collaborators ends as access
\* denied (or in a store failure) and leaves the row and the ledger as they
\* were.
C16_StrangerIsDenied ==
  [][\A d \in Docs :
       (/\ Handled({"save", "put", "revert"}, d)
        /\ documents[d].exists
        /\ lastOp'.user # Creator(d)
        /\ lastOp'.user \notin collaborators[d])
       => /\ lastOp'.outcome \in {"access_denied", "store_error"}
          /\ documents'[d] = documents[d]
          /\ versions'[d] = versions[d]]_vars

\* The owner of document d: the user the guarded create route passed as
\* ownerId.  A document created through the open routes has none.
IsOwner(d, u) == routeSet = "guarded" /\ u = Creator(d)

\* C17: saveDocumentToDB denies access exactly to a user who is neither the
\* owner of the document nor one of its collaborators; the owner is never
\* denied.
C17_OwnerOrCollaborator ==
  [][\A d \in Docs :
       (/\ Handled({"save"}, d)
        /\ documents[d].exists
        /\ lastOp'.outcome # "store_error")
       => ((lastOp'.outcome = "access_denied")
             <=> ~(IsOwner(d, lastOp'.user)
                     \/ lastOp'.user \in collaborators[d]))]_vars

EventsOf(es, name) == {e \in es : e.event = name}

\* C18: a join-document that succeeds adds the user to the Set of the room,
\* emits user-joined to every other socket in the room and not to the joining
\* one, and emits to the joining socket one active-users carrying the Set as
\* it is after the join; it emits nothing else.
C18_JoinAnnounces ==
  [][\A s \in Sockets, d \in Docs :
       (/\ <<s, d>> \in joining /\ <<s, d>> \notin joining'
        /\ lastOp'.outcome = "joined")
       => /\ documentRooms'[d].has
          /\ documentRooms'[d].users
               = documentRooms[d].users \cup {SocketUser(s)}
          /\ <<s, d>> \in joined'
          /\ EventsOf(emitted', "user-joined")
               = {Event("user-joined", t, SocketUser(s), d, "", {}, 0) :
                    t \in {x \in connected : <<x, d>> \in joined /\ x # s}}
          /\ EventsOf(emitted', "active-users")
               = {Event("active-users", s, SocketUser(s), d, "",
                        documentRooms'[d].users, 0)}
          /\ emitted' = EventsOf(emitted', "user-joined")
                          \cup EventsOf(emitted', "active-users")]_vars

\* user 2 joins a room that holds both tabs of user 1
C18_Witness ==
  /\ lastOp.op = "join-document" /\ lastOp.outcome = "joined"
  /\ lastOp.user = 2
  /\ joined = {<<1, 1>>, <<2, 1>>, <<3, 1>>}
  /\ documentRooms[1] = Room({1, 2})
  /\ emitted = {Event("user-joined", 1, 2, 1, "", {}, 0),
                Event("user-joined", 2, 2, 1, "", {}, 0),
                Event("active-users", 3, 2, 1, "", {1, 2}, 0)}

\* C19: when a socket leaves a room, by leave-document or by its disconnect,
\* while another connected socket of the same user stays joined to the room,
\* the user stays in the Set of the room and no user-left is emitted.
C19_SecondTabKeepsPresence ==
  [][\A s \in Sockets, d \in Docs :
       (/\ <<s, d>> \in joined /\ <<s, d>> \notin joined'
        /\ \E t \in connected' :
             t # s /\ SocketUser(t) = SocketUser(s) /\ <<t, d>> \in joined')
       => /\ documentRooms'[d] = documentRooms[d]
          /\ EventsOf(emitted', "user-left") = {}]_vars

\* the step ends the disconnect handler of socket s
DisconnectEnds(s) ==
  /\ lastOp'.op = "disconnect" /\ lastOp'.outcome = "done"
  /\ lastOp'.user = SocketUser(s)
  /\ \/ s \in connected /\ s \notin connected'
     \/ s \in disconnecting /\ s \notin disconnecting'

\* C20: the end of the disconnect handler of a socket of user A, in a room
\* that holds A and others, leaves the room with the others only and emits one
\* user-left for A to each socket that is in the room, whether or not the
\* handler had timers of A to cancel first; and no step emits user-left for a
\* user none of whose sockets is connected or disconnecting.
C20_DisconnectLeavesOthers ==
  [][/\ \A s \in Sockets, d \in Docs :
          (/\ DisconnectEnds(s)
           /\ documentRooms[d].has
           /\ SocketUser(s) \in documentRooms[d].users
           /\ documentRooms[d].users # {SocketUser(s)})
          => /\ documentRooms'[d]
                  = Room(documentRooms[d].users \ {SocketUser(s)})
             /\ {e \in emitted' : e.doc = d}
                  = {Event("user-left", t, SocketUser(s), d, "", {}, 0) :
                       t \in {x \in connected' : <<x, d>> \in joined'}}
     /\ \A e \in EventsOf(emitted', "user-left") :
          \E s \in connected \cup disconnecting : SocketUser(s) = e.user]_vars

\* user 1, with a timer of its own to cancel, has disconnected; user 2 stays
\* and was told
C20_Witness ==
  /\ lastOp.op = "disconnect" /\ lastOp.outcome = "done"
  /\ lastOp.before = "resumed" /\ lastOp.user = 1
  /\ documentRooms[1] = Room({2})
  /\ emitted = {Event("user-left", 3, 1, 1, "", {}, 0)}
  /\ connected = {3}

\* C21: the Map of rooms holds no entry whose Set of users is empty: a room
\* is there exactly while some user is recorded in it, whatever joins, leaves
\* and disconnects have run.
C21_NoEmptyRoom ==
  \A d \in DocIds :
    documentRooms[d].has <=> documentRooms[d].users # {}

\* a leave-document took the last user out of a room, and the entry is gone
C21_Witness ==
  \E d \in Docs :
    /\ lastOp.op = "leave-document" /\ lastOp.doc = d
    /\ lastOp.before = "member"
    /\ documentRooms[d] = NoRoom
    /\ joining = {}
\* C22: the step that handles a document-change emits document-update, with
\* the content and the sender's user id, to every other connected socket in
\* the document's socket.io room and to nobody else (one of the sender's own
\* sockets gets none), whatever the store and the timers hold; a step of a
\* timer or of its auto-save, failed ones included, emits nothing.
C22_BroadcastBeforePersistence ==
  [][/\ lastOp'.op = "document-change" =>
          \E s \in connected :
            /\ SocketUser(s) = lastOp'.user
            /\ emitted' =
                 {Event("document-update", t, lastOp'.user, lastOp'.doc,
                        lastOp'.content, {}, 0) :
                    t \in {x \in connected :
                             <<x, lastOp'.doc>> \in joined /\ x # s}}
     /\ lastOp'.op \in {"timer", "auto-save", "save"} => emitted' = {}]_vars

\* an edit of a user whose auto-save can only be refused (no access) reaches
\* the socket in the room
C22_Witness ==
  /\ lastOp.op = "document-change"
  /\ ~HasAccess(documents[lastOp.doc], collaborators[lastOp.doc], lastOp.user)
  /\ emitted # {}
  /\ \A e \in emitted : e.event = "document-update" /\ e.content = "v1"
  /\ Len(timers) = 1
  /\ documents[lastOp.doc].content = "v0"
\* C23: a step emits document-saved only when it is the last step of a
\* save-document handler whose saveDocumentToDB has returned; no step of a
\* timer or of an auto-save emits it; and it goes to every connected socket in
\* the document's socket.io room, the saver's own socket included when it is
\* in the room, and to no other socket.
C23_SavedOnlyAfterExplicitSave ==
  [][/\ EventsOf(emitted', "document-saved") # {} =>
          /\ lastOp'.op = "save-document" /\ lastOp'.outcome = "notified"
          /\ \A e \in emitted' :
                e.event = "document-saved" /\ e.doc = lastOp'.doc
     /\ (lastOp'.op = "save-document" /\ lastOp'.outcome = "notified") =>
          \E i \in 1..Len(saves) :
            /\ saves[i].st = "stored"
            /\ saves[i].doc = lastOp'.doc
            /\ SocketUser(saves[i].socket) = lastOp'.user
            /\ saves' = WithoutSave(i)
            /\ {e.to : e \in EventsOf(emitted', "document-saved")}
                 = {t \in connected : <<t, lastOp'.doc>> \in joined}
     /\ lastOp'.op \in {"timer", "auto-save", "save"} =>
          EventsOf(emitted', "document-saved") = {}]_vars

\* the save of user 2, whose socket is in the room with user 1's, is
\* announced to both sockets after an auto-save of user 1 has been committed
C23_Witness ==
  /\ lastOp.op = "save-document" /\ lastOp.outcome = "notified"
  /\ {e.to : e \in EventsOf(emitted, "document-saved")} = {1, 3}
  /\ \E i \in 1..Len(versions[1]) : versions[1][i].updatedById = 1 /\ i > 1
  /\ \E i \in 1..Len(versions[1]) : versions[1][i].updatedById = 2
\* C24: a join-document or a save-document that ends in document not found
\* or access denied emits one error event, to the socket that sent the
\* request, and nothing to any other socket; it changes neither the rooms
\* nor the store.
C24_RefusalsGoToSenderOnly ==
  [][(/\ lastOp'.op \in {"join-document", "save-document"}
      /\ lastOp'.outcome \in {"not_found", "access_denied"})
     => /\ \E s \in ErrorSockets :
             /\ SocketUser(s) = lastOp'.user
             /\ emitted' = {Event("error", s, lastOp'.user, lastOp'.doc, "",
                                   {}, 0)}
        /\ UNCHANGED <<storeVars, joined, documentRooms>>]_vars

\* user 1, no collaborator, sent save-document while user 2's socket is in
\* the room: access denied, one error to user 1's socket
C24_Witness ==
  /\ lastOp.op = "save-document" /\ lastOp.outcome = "access_denied"
  /\ lastOp.user = 1
  /\ <<3, lastOp.doc>> \in joined
  /\ emitted = {Event("error", 1, 1, lastOp.doc, "", {}, 0)}
\* C25: a save, PUT or revert either commits as a whole or leaves the store
\* as it was: a step that did not commit changes neither the document row nor
\* the ledger, and a step that changed either of them committed, appended at
\* most one row to the ledger as it was, wrote the content of the request
\* and set currentVersion to the number of ledger rows.
C25_AllOrNothing ==
  [][\A d \in Docs :
       documents[d].exists =>
         /\ lastOp'.outcome # "committed" =>
              documents'[d] = documents[d] /\ versions'[d] = versions[d]
         /\ (documents'[d] # documents[d] \/ versions'[d] # versions[d]) =>
              /\ Committed({"save", "put", "revert"}, d)
              /\ versions'[d] \in {versions[d],
                                    Append(versions[d],
                                           Version(documents[d].content,
                                                   lastOp'.user))}
              /\ documents'[d].currentVersion = Len(versions'[d])
              /\ documents'[d].content =
                   IF lastOp'.op = "revert"
                   THEN versions[d][lastOp'.index.val + 1].content
                   ELSE lastOp'.content]_vars

\* a save or PUT that would have appended a snapshot and changed the content
\* failed inside its transaction
C25_Witness ==
  \E d \in Docs :
    /\ lastOp.op \in {"save", "put"} /\ lastOp.doc = d
    /\ lastOp.outcome = "store_error"
    /\ documents[d].exists
    /\ HasAccess(documents[d], collaborators[d], lastOp.user)
          \/ (lastOp.op = "put" /\ routeSet = "open")
    /\ lastOp.content # documents[d].content
    /\ SnapshotNeeded(versions[d], documents[d])
    /\ documents[d].currentVersion = Len(versions[d])
    /\ Len(versions[d]) = 2
\* Two steps in a row each committed a write of document d, the second one
\* by another user than the first: the second saveDocumentToDB was in flight
\* when the first committed.
BothCommitted(d) ==
  /\ lastOp.op \in {"save", "save-document"} /\ lastOp.doc = d
  /\ lastOp.outcome = "committed"
  /\ Committed({"save", "save-document"}, d)
  /\ lastOp'.user # lastOp.user

\* C26: when the saveDocumentToDB calls of two users for one document are in
\* flight together and both commit, the second to commit finds the content
\* the first wrote, keeps every ledger row the first left, appends its
\* snapshot of that content unless the newest row holds it, leaves its own
\* content live and sets currentVersion to the number of ledger rows; the
\* ledger has no two equal rows in a row.
C26_LaterCommitWins ==
  [][\A d \in Docs :
       BothCommitted(d) =>
         /\ documents[d].content = lastOp.content
         /\ documents'[d].content = lastOp'.content
         /\ documents'[d].currentVersion = Len(versions'[d])
         /\ versions'[d] \in {versions[d],
                               Append(versions[d],
                                      Version(lastOp.content, lastOp'.user))}
         /\ \A i \in 1..(Len(versions'[d]) - 1) :
              versions'[d][i].content # versions'[d][i + 1].content]_vars

\* user 2's save-document of "v1" and user 1's auto-save of "v2" both
\* committed, each with a snapshot of what it found: three rows, "v2" live
C26_Witness ==
  /\ lastOp.op = "save" /\ lastOp.user = 1 /\ lastOp.outcome = "committed"
  /\ lastOp.before = "v1"
  /\ versions[1] = <<Version("v0", 1), Version("v2", 2), Version("v1", 1)>>
  /\ documents[1].content = "v2"
  /\ documents[1].currentVersion = 3
\* C27: no save, PUT or revert changes or removes a ledger row: the ledger
\* of a document before any step is a prefix of its ledger after the step.
C27_LedgerAppendOnly ==
  [][\A d \in Docs :
       documents[d].exists =>
         /\ Len(versions'[d]) >= Len(versions[d])
         /\ SubSeq(versions'[d], 1, Len(versions[d])) = versions[d]]_vars

\* a committed revert to the first of two rows appended a third row
C27_Witness ==
  \E d \in Docs :
    /\ lastOp.op = "revert" /\ lastOp.doc = d /\ lastOp.outcome = "committed"
    /\ lastOp.index.val = 0
    /\ lastOp.appended = 1
    /\ Len(versions[d]) = 3
    /\ documents[d].content = versions[d][1].content
\* C28: after a document-change of a user who may write the document, with
\* the store answering, either that user sends another edit (the user's
\* newest timer holds other content) or an auto-save of the user with the
\* edit's content ends with that content live.
C28_EditIsEventuallySaved ==
  \A u \in Users, c \in EditContents :
    (/\ lastOp.op = "document-change" /\ lastOp.user = u /\ lastOp.content = c
     /\ HasAccess(documents[1], collaborators[1], u))
    ~> (\/ /\ lastOp.op = "save" /\ lastOp.user = u /\ lastOp.content = c
           /\ lastOp.outcome \in {"committed", "unchanged"}
           /\ documents[1].content = c
        \/ NewestContent(u) \notin {"", c})

\* user 2's second edit has been committed by its auto-save after the first
\* one's, and no timer is left
C28_Witness ==
  /\ lastOp.op = "save" /\ lastOp.outcome = "committed"
  /\ lastOp.before \in EditContents
  /\ documents[1].content = lastOp.content
  /\ Len(versions[1]) = 2
  /\ timers = <<>>
  /\ collaborators[1] = {2}
\* C29 as stated: with no join-document and no disconnect handler waiting
\* for a lookup, every user in a room's Set has a connected socket that is in
\* the document's socket.io room.
C29_NoStalePresence ==
  (joining = {} /\ disconnecting = {}) =>
    \A d \in Docs : \A u \in documentRooms[d].users :
      \E s \in connected : SocketUser(s) = u /\ <<s, d>> \in joined
\* C30 as stated: the version in a document-saved event is the versionCount
\* that the saveDocumentToDB of the same save-document committed, whatever
\* was committed between that commit and the emit.
C30_SavedCarriesOwnVersion ==
  [][(lastOp'.op = "save-document" /\ lastOp'.outcome = "notified") =>
       \A i \in 1..Len(saves) :
         (/\ saves[i].st = "stored" /\ saves' = WithoutSave(i)
          /\ saves[i].version # 0)
         => \A e \in EventsOf(emitted', "document-saved") :
              e.version = saves[i].version]_vars
\* C31 as stated: a step delivers document-update or cursor-update to the
\* sockets of a document's room only when a socket of the sending user is in
\* that room (it passed the access check of join-document).
C31_OnlyMembersReachTheRoom ==
  [][(EventsOf(emitted', "document-update")
        \cup EventsOf(emitted', "cursor-update")) # {}
     => \E s \in connected :
          /\ SocketUser(s) = lastOp'.user
          /\ <<s, lastOp'.doc>> \in joined]_vars
\* C32 as stated: a step emits user-left for a user and a document only when
\* it took that user out of the Set of the document's room.
C32_UserLeftOnlyOnRemoval ==
  [][\A e \in EventsOf(emitted', "user-left") :
       /\ e.user \in documentRooms[e.doc].users
       /\ e.user \notin documentRooms'[e.doc].users]_vars
\* Over document and user ids up to MaxId, the suffix test of the disconnect
\* handler picks the keys made with the user's id and no others.
KeySuffixNamesItsUser ==
  \A d \in 1..MaxId, u \in 1..MaxId, v \in 1..MaxId :
    KeyOfUser(KeyText(d, v), u) <=> u = v

\* C33: a step of the disconnect handler of a user's socket leaves every
\* timer of every other user as it is, in the table and among the timers
\* set: only keys made with the user's own id pass the suffix test.
C33_DisconnectSparesOtherUsers ==
  [][lastOp'.op = "disconnect" =>
       /\ \A k \in TimerKeys :
            k[2] # lastOp'.user => autoSaveTimers'[k] = autoSaveTimers[k]
       /\ SelectSeq(timers', LAMBDA t : t.user # lastOp'.user)
            = SelectSeq(timers, LAMBDA t : t.user # lastOp'.user)
       /\ KeySuffixNamesItsUser]_vars

\* the disconnect of a socket of user 1 cancelled user 1's timer while the
\* armed timer of user 2 for the same document stays recorded
C33_Witness ==
  /\ lastOp.op = "disconnect" /\ lastOp.user = 1
  /\ lastOp.outcome = "awaiting"
  /\ \E i \in 1..Len(timers) :
       /\ timers[i].user = 2 /\ timers[i].st = "armed"
       /\ autoSaveTimers[TimerKey(1, 2)] = timers[i].id
  /\ autoSaveTimers[TimerKey(1, 1)] = NoTimer
\* C34 as stated: every timer whose callback has not started is the timer
\* recorded in autoSaveTimers under the key of its document and user.
C34_ArmedTimerIsRecorded ==
  \A i \in 1..Len(timers) :
    Pending(timers[i]) =>
      autoSaveTimers[TimerKey(timers[i].doc, timers[i].user)] = timers[i].id
====
